---- MODULE Spec2Model ----
(***************************************************************************)
(* A model of yappcap (src/yappcap.pyx): one capture session (PcapLive or  *)
(* PcapOffline), its activation lifecycle, its configuration setters, the  *)
(* pull read (__next__), the callback loops (loop / dispatch, bridged by   *)
(* __pcap_callback_fn), breakloop, the filter property and the autosave    *)
(* PcapDumper.  libpcap is the environment: every native call returns one  *)
(* of the statuses libpcap documents for it, chosen nondeterministically   *)
(* where the outcome depends on the device or the file.                    *)
(***************************************************************************)
EXTENDS Integers, Sequences, FiniteSets, TLC

\* ------------------------------------------------------------------ bounds
\* Most packets the capture source (interface or savefile) ever holds.
MaxPkts == 2
\* Largest positive count passed to loop()/dispatch(); 0 means "no limit".
MaxCount == 1

\* ------------------------------------------------- libpcap status codes
PCAP_ERROR == -1
PCAP_ERROR_BREAK == -2
PCAP_ERROR_NOT_ACTIVATED == -3
PCAP_ERROR_ACTIVATED == -4
PCAP_ERROR_NO_SUCH_DEVICE == -5
PCAP_ERROR_RFMON_NOTSUP == -6
PCAP_ERROR_PERM_DENIED == -8
PCAP_ERROR_IFACE_NOT_UP == -9
PCAP_WARNING == 1
PCAP_WARNING_PROMISC_NOTSUP == 2
\* Statuses of pcap_activate that no branch of lines 472-490 names.
PCAP_ERROR_PROMISC_PERM_DENIED == -11
PCAP_WARNING_TSTAMP_TYPE_NOTSUP == 3

PCAP_LOOP_DISPATCH == 0
PCAP_LOOP_LOOP == 1

None == "None"

\* The exception classes of lines 10-44, and the built-in ones the code raises.
PcapExceptions ==
    {"PcapError", "PcapErrorBreak", "PcapErrorNotActivated", "PcapErrorActivated",
     "PcapErrorNoSuchDevice", "PcapErrorRfmonNotSup", "PcapErrorNotRfmon",
     "PcapErrorPermDenied", "PcapErrorIfaceNotUp", "PcapWarning",
     "PcapWarningPromiscNotSup", "PcapTimeout"}

\* The failure a user's callback raises: a class of the caller's, none of the
\* library's.
CallbackFailure == "CallbackFailure"

Exceptions ==
    PcapExceptions \cup {"StopIteration", "TypeError", "SystemError", CallbackFailure}

\* Values a configuration field can be given; "v0" is what the constructor passes.
Vals == {"v0", "v1"}

\* The filter expressions a caller compiles or assigns.
FilterExprs == {"f1"}

VARIABLES
    kind,       \* "live" (PcapLive) or "offline" (PcapOffline)
    autosave,   \* __autosave: TRUE when an autosave path was given
    src,        \* the packets the native engine has read from the interface or
                \* the savefile so far, in order: src[i] is TRUE when packet i
                \* was surfaced, FALSE when the attached filter dropped it
    eof,        \* the native engine has met the end of the savefile
    pcap,       \* __pcap: "open" or "NULL"
    released,   \* how many times pcap_close was called on the handle
    activated,  \* __activated
    nactive,    \* libpcap's own activated flag of the handle
    dumper,     \* __dumper: TRUE when a PcapDumper is attached
    filter,     \* __filter: None or the expression of the BpfProgram held
    nfilter,    \* the filter libpcap applies (pcap_setfilter succeeded with it)
    cfg,        \* __snaplen, __promisc, __timeout, __rfmon, __buffer_size
    brk,        \* libpcap's break_loop flag of the handle
    pyerr,      \* CPython's pending error: 0, or k for the failure raised by
                \* the callback on packet k
    pc,         \* "idle", or "native" inside pcap_loop / pcap_dispatch; "failed"
                \* when the constructor raised, "freed" after __dealloc__
    lp,         \* the running (or last finished) loop()/dispatch() call
    delivered,  \* packets handed to the caller (by __next__ or to the callback)
    dumped,     \* packets written to the Dump Sink
    last        \* the last step: operation, outcome, activation before it,
                \* whether it called the native handle, and the status the
                \* native call it maps returned (<<>> when it maps none), and
                \* the value a configuration setter was given (<<>> otherwise)

\* The read-only records the library builds from native data, apart from any
\* session: a PcapPacket from a packet header and its bytes, a PcapAddress from
\* an address entry of pcap_findalldevs.
VARIABLES
    native,     \* the native data handed to a factory (<<>> when there is none)
    built       \* <<>>, or the record the factory built and where it was called

\* The variables of the capture session.
session == <<kind, autosave, src, eof, pcap, released, activated, nactive, dumper,
             filter, nfilter, cfg, brk, pyerr, pc, lp, delivered, dumped, last>>

records == <<native, built>>

vars == <<kind, autosave, src, eof, pcap, released, activated, nactive, dumper, filter,
          nfilter, cfg, brk, pyerr, pc, lp, delivered, dumped, last, native, built>>

\* No loop()/dispatch() call is running or has just returned.
NoLoop == [type |-> 1, cnt |-> 0, start |-> 0, n |-> 0, raisedAt |-> 0,
           brokeAt |-> 0, log |-> <<>>, brk0 |-> FALSE, after |-> "other",
           end |-> "none"]

\* Groups of variables, for the frame conditions.
static == <<kind, autosave, pcap, released>>
stream == <<src, eof>>
logs == <<delivered, dumped>>
filt == <<filter, nfilter>>
looping == <<pyerr, pc>>

\* Packets the native engine has consumed.
pos == Len(src)

Step(op, out, pre, nat) ==
    [op |-> op, out |-> out, pre |-> pre, nat |-> nat, res |-> <<>>, arg |-> <<>>]

\* A step whose outcome is mapped from the status res of a native call.
NativeStep(op, out, pre, res) ==
    [op |-> op, out |-> out, pre |-> pre, nat |-> TRUE, res |-> <<res>>,
     arg |-> <<>>]

\* A step of a configuration setter: v is the value the caller assigns.
SetStep(op, out, pre, v) ==
    [op |-> op, out |-> out, pre |-> pre, nat |-> TRUE, res |-> <<>>, arg |-> <<v>>]

\* ---------------------------------------------------------- construction
\* How a constructor ends: it returns; or it raises before a handle is open
\* (pcap_create, lines 275-277; pcap_open_offline, lines 517-519); or it raises
\* with the handle open (PcapLive: the rfmon setter of line 286 raising at 369
\* or 373; PcapOffline: the PcapDumper of line 522).
Constructions(k, auto) ==
    {"returned", "no handle"}
        \cup (IF k = "live" \/ auto THEN {"handle, raised"} ELSE {})

\* What the caller of the constructor sees: PcapError when no handle could be
\* opened (lines 277, 519); with the handle open, what the rfmon setter raised
\* (lines 369, 373) or the PcapError of the PcapDumper (line 584).
ConstructorOutcomes(k, c) ==
    IF c = "returned" THEN {"return"}
    ELSE IF c = "no handle" THEN {"PcapError"}
    ELSE IF k = "live" THEN {"PcapErrorNoSuchDevice", "PcapError"}
    ELSE {"PcapError"}

\* A variant whose constructor stops at line 516.
OpenedActivatedNever(k, c) == FALSE

\* __activated when the constructor ends: PcapLive leaves it False (line 273);
\* PcapOffline sets it False (line 516) and, once pcap_open_offline gave a
\* handle, True (line 520).
OpenedActivated(k, c) == k = "offline" /\ c # "no handle"

\* PcapLive.__init__ (lines 242-287): pcap_create, then the setters; rfmon is
\* stored only when pcap_can_set_rfmon says 1, buffer_size is never stored.
\* PcapOffline.__init__ (lines 499-522): pcap_open_offline, activated, dumper.
Init ==
    /\ kind \in {"live", "offline"}
    /\ autosave \in BOOLEAN
    /\ \E c \in Constructions(kind, autosave) :
         /\ pcap = IF c = "no handle" THEN "NULL" ELSE "open"
         /\ pc = IF c = "returned" THEN "idle" ELSE "failed"
         /\ activated = OpenedActivated(kind, c)
         /\ nactive = (kind = "offline" /\ c # "no handle")
         /\ dumper = (kind = "offline" /\ autosave /\ c = "returned")
         /\ \E o \in ConstructorOutcomes(kind, c) :
              last = Step("init", o, FALSE, FALSE)
         /\ IF kind = "live" /\ c = "returned"
            THEN \E r \in {None, "v0"} :
                   cfg = [snaplen |-> "v0", promisc |-> "v0", timeout |-> "v0",
                          rfmon |-> r, buffer_size |-> None]
            ELSE IF kind = "live" /\ c = "handle, raised"
            THEN cfg = [snaplen |-> "v0", promisc |-> "v0", timeout |-> "v0",
                        rfmon |-> None, buffer_size |-> None]
            ELSE cfg = [snaplen |-> None, promisc |-> None, timeout |-> None,
                        rfmon |-> None, buffer_size |-> None]
    /\ released = 0
    /\ src = <<>>
    /\ eof = FALSE
    /\ filter = None
    /\ nfilter = None
    /\ brk = FALSE
    /\ pyerr = 0
    /\ lp = NoLoop
    /\ delivered = <<>>
    /\ dumped = <<>>
    /\ native = <<>>
    /\ built = <<>>

\* ----------------------------------------------------------- destruction
\* A variant that closes whatever __pcap holds.
ReleasedUnchecked(p, r) == r + 1

\* Lines 230-231: pcap_close is called when __pcap is not NULL.
Released(p, r) == IF p # "NULL" THEN r + 1 ELSE r

\* Pcap.__dealloc__, lines 229-231: the interpreter calls it once, when the
\* last reference to the session goes, be it after a constructor that raised;
\* a running loop()/dispatch() holds a reference.
Dealloc ==
    /\ pc \in {"idle", "failed"}
    /\ released' = Released(pcap, released)
    /\ pc' = "freed"
    /\ last' = Step("dealloc", "return", activated, pcap # "NULL")
    /\ lp' = NoLoop
    /\ UNCHANGED <<records, kind, autosave, pcap, stream, logs, filt, pyerr, activated,
                   nactive, dumper, cfg, brk>>

\* ------------------------------------------------------ Python's raise
\* `raise x`, x named by its text: x is raised when it is an exception class or
\* instance; any other object (an int, a tuple) makes the raise statement
\* itself fail with TypeError.
RaiseStmt(x) == IF x \in Exceptions THEN x ELSE "TypeError"

\* sys.exc_info() at line 126: the exception being handled by an except clause.
\* __loop_common runs inside no except clause, and the callback's failure is
\* the pending error of line 124, not a handled one: the tuple is three Nones.
sys_exc_info == "(None, None, None)"

\* A Python-level call made while an error is pending (lines 55, 58 and 126
\* make such calls): the interpreter either runs it as any other call, or, when
\* it checks the results of calls, fails it with SystemError once the callee
\* has run.  Which one is a property of the build.
PendingCall(err) == IF err = 0 THEN {"runs"} ELSE {"runs", "fails"}

\* ------------------------------------------------ configuration setters
\* pcap_set_snaplen / _promisc / _timeout / _rfmon / _buffer_size: libpcap's
\* pcap_check_activated refuses them on an activated handle.
pcap_set(nact) == IF nact THEN PCAP_ERROR_ACTIVATED ELSE 0

\* Lines 308-310, 326-328, 344-346, 396-397.
SetterOutcome(res) ==
    IF res = PCAP_ERROR_ACTIVATED THEN "PcapErrorActivated" ELSE "return"

\* PcapLive.snaplen.__set__, lines 303-310.
SetSnaplen(v) ==
    /\ pc = "idle" /\ kind = "live" /\ pcap = "open"
    /\ LET out == SetterOutcome(pcap_set(nactive))
       IN /\ cfg' = IF out = "return" THEN [cfg EXCEPT !.snaplen = v] ELSE cfg
          /\ last' = SetStep("set_snaplen", out, activated, v)
    /\ lp' = NoLoop
    /\ UNCHANGED <<records, static, stream, logs, filt, looping, activated, nactive, dumper, brk>>

\* PcapLive.promisc.__set__, lines 321-328.
SetPromisc(v) ==
    /\ pc = "idle" /\ kind = "live" /\ pcap = "open"
    /\ LET out == SetterOutcome(pcap_set(nactive))
       IN /\ cfg' = IF out = "return" THEN [cfg EXCEPT !.promisc = v] ELSE cfg
          /\ last' = SetStep("set_promisc", out, activated, v)
    /\ lp' = NoLoop
    /\ UNCHANGED <<records, static, stream, logs, filt, looping, activated, nactive, dumper, brk>>

\* PcapLive.timeout.__set__, lines 339-346.
SetTimeout(v) ==
    /\ pc = "idle" /\ kind = "live" /\ pcap = "open"
    /\ LET out == SetterOutcome(pcap_set(nactive))
       IN /\ cfg' = IF out = "return" THEN [cfg EXCEPT !.timeout = v] ELSE cfg
          /\ last' = SetStep("set_timeout", out, activated, v)
    /\ lp' = NoLoop
    /\ UNCHANGED <<records, static, stream, logs, filt, looping, activated, nactive, dumper, brk>>

\* PcapLive.buffer_size.__set__, lines 392-397: the setter stores nothing; the
\* getter of line 391 keeps returning the attribute's initial None.
SetBufferSize(v) ==
    /\ pc = "idle" /\ kind = "live" /\ pcap = "open"
    /\ last' = SetStep("set_buffer_size", SetterOutcome(pcap_set(nactive)), activated, v)
    /\ lp' = NoLoop
    /\ UNCHANGED <<records, static, stream, logs, filt, looping, activated, nactive, dumper,
                   brk, cfg>>

\* pcap_can_set_rfmon: 1 or 0 by the device, or an error; libpcap documents
\* PCAP_ERROR_ACTIVATED for an activated handle, and the device answer is what
\* its Linux implementation returns whatever the activation.
CanSetRfmon(nact) ==
    {0, 1, PCAP_ERROR_NO_SUCH_DEVICE, PCAP_ERROR}
        \cup (IF nact THEN {PCAP_ERROR_ACTIVATED} ELSE {})

\* Lines 364-377; res is pcap_can_set_rfmon's status, res2 pcap_set_rfmon's.
RfmonOutcome(res, res2) ==
    IF res = 0 THEN "return"
    ELSE IF res = PCAP_ERROR_NO_SUCH_DEVICE THEN "PcapErrorNoSuchDevice"
    ELSE IF res = PCAP_ERROR_ACTIVATED THEN "PcapErrorActivated"
    ELSE IF res = PCAP_ERROR THEN "PcapError"
    ELSE IF res = 1
         THEN IF res2 = PCAP_ERROR_ACTIVATED
              THEN RaiseStmt("PCAP_ERROR_ACTIVATED")
              ELSE "return"
    ELSE "return"

\* Line 377 is reached only through res = 1 and a pcap_set_rfmon that did not
\* answer PCAP_ERROR_ACTIVATED.
RfmonStored(res, res2) == res = 1 /\ res2 # PCAP_ERROR_ACTIVATED

\* PcapLive.rfmon.__set__, lines 360-377.
SetRfmon(v) ==
    /\ pc = "idle" /\ kind = "live" /\ pcap = "open"
    /\ \E res \in CanSetRfmon(nactive) :
         LET res2 == pcap_set(nactive)
         IN /\ cfg' = IF RfmonStored(res, res2) THEN [cfg EXCEPT !.rfmon = v] ELSE cfg
            /\ last' = SetStep("set_rfmon", RfmonOutcome(res, res2), activated, v)
    /\ lp' = NoLoop
    /\ UNCHANGED <<records, static, stream, logs, filt, looping, activated, nactive, dumper, brk>>

\* ------------------------------------------------------------ activation
\* pcap_activate: PCAP_ERROR_ACTIVATED on an activated handle, else success, a
\* warning or an error by the device.
ActivateStatuses(nact) ==
    IF nact THEN {PCAP_ERROR_ACTIVATED}
    ELSE {0, PCAP_WARNING, PCAP_WARNING_PROMISC_NOTSUP, PCAP_WARNING_TSTAMP_TYPE_NOTSUP,
          PCAP_ERROR, PCAP_ERROR_NO_SUCH_DEVICE, PCAP_ERROR_PERM_DENIED,
          PCAP_ERROR_RFMON_NOTSUP, PCAP_ERROR_IFACE_NOT_UP,
          PCAP_ERROR_PROMISC_PERM_DENIED}

\* libpcap marks the handle activated on success and on every warning.
NativeActivated(nact, res) == nact \/ res >= 0

\* Lines 472-490: the branch taken for pcap_activate's status; "return" when
\* no branch raises (status 0, and every status the chain does not name).
ActivateBranch(res) ==
    IF res = 0 THEN "return"
    ELSE IF res = PCAP_WARNING_PROMISC_NOTSUP THEN "PcapWarningPromiscNotSup"
    ELSE IF res = PCAP_WARNING THEN "PcapWarning"
    ELSE IF res = PCAP_ERROR_ACTIVATED THEN "PcapErrorActivated"
    ELSE IF res = PCAP_ERROR_NO_SUCH_DEVICE THEN "PcapErrorNoSuchDevice"
    ELSE IF res = PCAP_ERROR_PERM_DENIED THEN "PcapErrorPermDenied"
    ELSE IF res = PCAP_ERROR_RFMON_NOTSUP THEN "PcapErrorRfmonNotSup"
    ELSE IF res = PCAP_ERROR_IFACE_NOT_UP THEN "PcapErrorIfaceNotUp"
    ELSE IF res = PCAP_ERROR THEN "PcapError"
    ELSE "return"

\* A variant that takes every other status of pcap_activate as "not activated".
ActivatedAfterReset(act, res) == res = 0

\* Lines 472-473: __activated is assigned in the res == 0 branch alone.
ActivatedAfter(act, res) == IF res = 0 THEN TRUE ELSE act

\* pcap_dump_open (line 582): fails on a handle that is not activated, and
\* may fail on an activated one (the path cannot be written).
DumpOpenResults(nact) == IF nact THEN {TRUE, FALSE} ELSE {FALSE}

\* PcapDumper.__init__, lines 581-584.
DumperOutcome(opened) == IF opened THEN "return" ELSE "PcapError"

\* PcapLive.activate, lines 452-493 (the pcap_create build, PCAP_V0 unset).
Activate ==
    /\ pc = "idle" /\ kind = "live" /\ pcap = "open"
    /\ \E res \in ActivateStatuses(nactive) :
         LET branch == ActivateBranch(res)
             nact2 == NativeActivated(nactive, res)
         IN /\ nactive' = nact2
            /\ activated' = ActivatedAfter(activated, res)
            /\ IF branch = "return" /\ autosave
               THEN \E opened \in DumpOpenResults(nact2) :
                      /\ dumper' = (IF opened THEN TRUE ELSE dumper)
                      /\ last' = NativeStep("activate", DumperOutcome(opened), activated, res)
               ELSE /\ dumper' = dumper
                    /\ last' = NativeStep("activate", branch, activated, res)
    /\ lp' = NoLoop
    /\ UNCHANGED <<records, static, stream, logs, filt, looping, cfg, brk>>

\* ----------------------------------------------------- the native reads
\* A variant without the activation check.
NotActivatedOff(act) == FALSE

\* `if not self.activated` of lines 86, 110, 195 and 744.
NotActivated(act) == ~act

\* The source can still produce a packet: a savefile until its end is met, an
\* interface as long as traffic arrives.
Room == IF eof THEN 0 ELSE MaxPkts - pos

\* libpcap applies the attached filter f before it surfaces a packet: a read
\* can drop a packet only when a filter is attached.
Dropped(f) == IF f = None THEN {} ELSE {FALSE}

\* The runs of at most n packets, all dropped by f, that a read can pass over.
SkipRuns(f, n) == UNION {[1..j -> Dropped(f)] : j \in 0..n}

\* The status with which a read of an activated handle fails.
ReadErrors == {PCAP_ERROR}

\* pcap_next_ex (line 89): PCAP_ERROR_BREAK when the break flag is set (the flag
\* is cleared); else 1 with the next packet the filter lets through; else -2 at
\* the end of a savefile, 0 (timeout) on an interface.  add is what the engine
\* read on the way.
NextExResults ==
    IF brk THEN {[res |-> PCAP_ERROR_BREAK, add |-> <<>>, brk |-> FALSE, eof |-> eof]}
    ELSE {[res |-> e, add |-> <<>>, brk |-> brk, eof |-> eof] : e \in ReadErrors}
         \cup {[res |-> 1, add |-> Append(run, TRUE), brk |-> brk, eof |-> eof] :
                 run \in SkipRuns(nfilter, Room - 1)}
         \cup {[res |-> IF kind = "offline" THEN -2 ELSE 0, add |-> run, brk |-> brk,
                eof |-> (kind = "offline")] : run \in SkipRuns(nfilter, Room)}

\* A variant that hands back an (empty) record on a timeout.
NextOutcomeEmpty(res) ==
    IF res = 0 \/ res = 1 THEN "return"
    ELSE IF res = -2 THEN "StopIteration"
    ELSE "PcapError"

\* Lines 90-105.
NextOutcome(res) ==
    IF res = 0 THEN "PcapTimeout"
    ELSE IF res = -1 THEN "PcapError"
    ELSE IF res = -2 THEN "StopIteration"
    ELSE IF res = PCAP_ERROR_NOT_ACTIVATED THEN "PcapErrorNotActivated"
    ELSE IF res = 1 THEN "return"
    ELSE "PcapError"

\* Lines 101-102, 59-60: PcapDumper.dump appends the packet when a dumper is held.
Dump(has, d, k) == IF has THEN Append(d, k) ELSE d

\* Pcap.__next__, lines 80-105.
NextPkt ==
    /\ pc = "idle" /\ pcap = "open"
    /\ IF NotActivated(activated)
       THEN /\ last' = Step("next", "PcapErrorNotActivated", activated, FALSE)
            /\ UNCHANGED <<records, stream, brk, logs>>
       ELSE \E r \in NextExResults :
              LET k == pos + Len(r.add)
              IN /\ src' = src \o r.add
                 /\ eof' = r.eof
                 /\ brk' = r.brk
                 /\ delivered' = IF r.res = 1 THEN Append(delivered, k) ELSE delivered
                 /\ dumped' = IF r.res = 1 THEN Dump(dumper, dumped, k) ELSE dumped
                 /\ last' = NativeStep("next", NextOutcome(r.res), activated, r.res)
    /\ lp' = NoLoop
    /\ UNCHANGED <<records, static, filt, looping, activated, nactive, dumper, cfg>>

\* --------------------------------------------------------------- breakloop
\* Pcap.breakloop, lines 172-177: the flag after the call.  On a session that is
\* not activated the method returns (an exception object, not raised).
\* A variant whose breakloop() never reaches pcap_breakloop.
BreakloopFlagKeep(act, b) == b

\* A variant without the activation check of line 174.
BreakloopFlagAlways(act, b) == TRUE

BreakloopFlag(act, b) == IF NotActivated(act) THEN b ELSE TRUE

Breakloop ==
    /\ pc = "idle" /\ pcap = "open"
    /\ brk' = BreakloopFlag(activated, brk)
    /\ last' = Step("breakloop", "return", activated, activated)
    /\ lp' = NoLoop
    /\ UNCHANGED <<records, static, stream, logs, filt, looping, activated, nactive, dumper, cfg>>

\* ------------------------------------------------------- loop / dispatch
LoopName(looptype) == IF looptype = PCAP_LOOP_DISPATCH THEN "dispatch" ELSE "loop"

\* What the caller did just before this loop()/dispatch() call: "breakloop"
\* when it called breakloop() on the activated session, "failure" when it made
\* a loop()/dispatch() call that ended with a failure of its callback (which
\* never called breakloop() itself), "other" otherwise.
CalledAfter ==
    IF last.op = "breakloop" /\ last.nat THEN "breakloop"
    ELSE IF last.op \in {"loop", "dispatch"} /\ last.nat
            /\ lp.raisedAt # 0 /\ lp.brokeAt = 0 THEN "failure"
    ELSE "other"

\* Pcap.loop / Pcap.dispatch through __loop_common, lines 107-120: the check,
\* the context, and the entry into pcap_dispatch / pcap_loop.
LoopCall(looptype, count) ==
    /\ pc = "idle" /\ pcap = "open"
    /\ IF NotActivated(activated)
       THEN /\ last' = Step(LoopName(looptype), "PcapErrorNotActivated", activated, FALSE)
            /\ lp' = NoLoop
            /\ pc' = pc
       ELSE /\ pc' = "native"
            /\ lp' = [type |-> looptype, cnt |-> count, start |-> pos, n |-> 0,
                      raisedAt |-> 0, brokeAt |-> 0, log |-> <<>>, brk0 |-> brk,
                      after |-> CalledAfter, end |-> "running"]
            /\ last' = Step("enter", "none", activated, TRUE)
    /\ UNCHANGED <<records, static, stream, logs, filt, pyerr, activated, nactive, dumper,
                   cfg, brk>>

\* What the user's callback does with one packet.
CallbackActs == {"return", "raise", "breakloop"}

\* Lines 54-55: with an error pending from an earlier invocation, the bridge
\* calls breakloop() at the start of this invocation.
BridgeBreak(err, act, b) == IF err # 0 THEN BreakloopFlag(act, b) ELSE b

\* Lines 55-58: the callback is reached unless the call of line 55 failed; no
\* statement between them looks at the pending error.
CallbackRuns(pend) == pend = "runs"

\* A variant in which a breakloop() made by the callback is lost.
CallbackBreakNone(cb, act, b) == b

\* Lines 57-58: the flag after the callback.
CallbackBreak(cb, act, b) == IF cb = "breakloop" THEN BreakloopFlag(act, b) ELSE b

\* Line 58: a failure of the callback replaces the pending error.
CallbackErr(cb, err, k) == IF cb = "raise" THEN k ELSE err

\* Lines 58-60: the failure of line 58 leaves the function (except *) before
\* the dump of lines 59-60.
DumpAfterCallback(cb, has, d, k) == IF cb = "raise" THEN d ELSE Dump(has, d, k)

\* Packets the native loop has handed to __pcap_callback_fn in the running call.
LoopN == lp.n

\* The native loop is about to read: its count is not used up and no break is
\* requested.
NativeReads ==
    /\ pc = "native"
    /\ ~(lp.cnt > 0 /\ LoopN >= lp.cnt)
    /\ ~brk

\* The native engine reads a packet the attached filter drops.
NativeSkip ==
    /\ NativeReads
    /\ Room > 0
    /\ \E b \in Dropped(nfilter) : src' = Append(src, b)
    /\ last' = Step("skip", "none", activated, TRUE)
    /\ UNCHANGED <<records, static, eof, logs, filt, looping, activated, nactive, dumper, cfg,
                   brk, lp>>

\* The native engine reads the next packet and calls __pcap_callback_fn
\* (lines 46-60) with it; cb is what the user's callback does.
NativeDeliver(cb, pend) ==
    /\ NativeReads
    /\ Room > 0
    /\ pend \in PendingCall(pyerr)
    /\ src' = Append(src, TRUE)
    /\ LET k == pos + 1
           b1 == BridgeBreak(pyerr, activated, brk)
       IN IF CallbackRuns(pend)
          THEN /\ brk' = CallbackBreak(cb, activated, b1)
               /\ pyerr' = CallbackErr(cb, pyerr, k)
               /\ delivered' = Append(delivered, k)
               /\ dumped' = DumpAfterCallback(cb, dumper, dumped, k)
               /\ lp' = [lp EXCEPT !.n = @ + 1, !.log = Append(@, k),
                                   !.raisedAt = IF @ = 0 /\ cb = "raise" THEN k ELSE @,
                                   !.brokeAt = IF @ = 0 /\ cb = "breakloop" THEN k ELSE @]
               /\ last' = Step("callback", cb, activated, TRUE)
          ELSE /\ cb = "return"
               /\ brk' = b1
               /\ lp' = [lp EXCEPT !.n = @ + 1]
               /\ last' = Step("callback", "none", activated, TRUE)
               /\ UNCHANGED <<records, pyerr, logs>>
    /\ UNCHANGED <<records, static, eof, filt, pc, activated, nactive, dumper, cfg>>

\* How pcap_dispatch / pcap_loop comes back: its status, the break flag it
\* leaves, and why.  The count is looked at right after a callback, the break
\* flag before each read; a break with packets processed leaves pcap_dispatch
\* with their number and the flag still set, while pcap_loop reads again, finds
\* the flag, clears it and returns PCAP_ERROR_BREAK.  At the end of a savefile
\* both return 0; on an interface with nothing to read pcap_dispatch returns
\* the packets processed and pcap_loop keeps waiting.
NativeEnds ==
    IF lp.cnt > 0 /\ LoopN >= lp.cnt
    THEN {[res |-> IF lp.type = PCAP_LOOP_DISPATCH THEN LoopN ELSE 0,
           brk |-> brk, eof |-> eof, end |-> "count"]}
    ELSE IF brk
    THEN IF LoopN = 0 \/ lp.type = PCAP_LOOP_LOOP
         THEN {[res |-> PCAP_ERROR_BREAK, brk |-> FALSE, eof |-> eof, end |-> "break"]}
         ELSE {[res |-> LoopN, brk |-> TRUE, eof |-> eof, end |-> "break"]}
    ELSE {[res |-> e, brk |-> brk, eof |-> eof, end |-> "error"] : e \in ReadErrors}
         \cup (IF kind = "offline"
               THEN {[res |-> 0, brk |-> brk, eof |-> TRUE, end |-> "eof"]}
               ELSE IF lp.type = PCAP_LOOP_DISPATCH
               THEN {[res |-> LoopN, brk |-> brk, eof |-> eof, end |-> "timeout"]}
               ELSE {})

\* A variant that takes only a positive status as success.
LoopOutcomeStrict(looptype, res, err, pend) ==
    IF err # 0 THEN (IF pend = "runs" THEN RaiseStmt(sys_exc_info) ELSE "SystemError")
    ELSE IF res > 0 THEN "return"
    ELSE IF res = -2 THEN "PcapErrorBreak"
    ELSE "PcapError"

\* Lines 122-140: the status of the native loop and the pending error give the
\* outcome of loop() / dispatch(); pend is how the call of line 126 goes.
LoopOutcome(looptype, res, err, pend) ==
    IF err # 0 THEN (IF pend = "runs" THEN RaiseStmt(sys_exc_info) ELSE "SystemError")
    ELSE IF res >= 0 THEN "return"
    ELSE IF res = -1 THEN "PcapError"
    ELSE IF res = -2 THEN "PcapErrorBreak"
    ELSE IF res = PCAP_ERROR_NOT_ACTIVATED THEN "PcapErrorNotActivated"
    ELSE "PcapError"

\* pcap_dispatch / pcap_loop returns and __loop_common finishes, lines 118-140.
NativeReturn ==
    /\ pc = "native"
    /\ \E r \in NativeEnds, pend \in PendingCall(pyerr) :
         /\ brk' = r.brk
         /\ eof' = r.eof
         /\ lp' = [lp EXCEPT !.end = r.end]
         /\ last' = NativeStep(LoopName(lp.type),
                               LoopOutcome(lp.type, r.res, pyerr, pend), activated, r.res)
    /\ pyerr' = 0
    /\ pc' = "idle"
    /\ UNCHANGED <<records, static, src, logs, filt, activated, nactive, dumper, cfg>>

\* ------------------------------------------------------------ the filter
\* pcap_compile (line 747) and pcap_setfilter (line 203) on an activated handle.
CompileStatuses == {0, PCAP_ERROR}
SetfilterStatuses == {0, PCAP_ERROR}

\* A variant that compiles whatever the activation.
BpfOutcomeUnchecked(act, res) ==
    IF res = -1 THEN "PcapError"
    ELSE IF res = PCAP_ERROR_NOT_ACTIVATED THEN "PcapErrorNotActivated"
    ELSE "return"

\* BpfProgram.__init__, lines 744-753.
BpfOutcome(act, res) ==
    IF NotActivated(act) THEN "PcapErrorNotActivated"
    ELSE IF res = -1 THEN "PcapError"
    ELSE IF res = PCAP_ERROR_NOT_ACTIVATED THEN "PcapErrorNotActivated"
    ELSE "return"

\* BpfProgram(session, e), lines 732-753, called by the user: the program it
\* builds is the caller's, the session is left as it was.
BpfProgramInit(e) ==
    /\ pc = "idle" /\ pcap = "open"
    /\ \E res \in CompileStatuses :
         last' = IF NotActivated(activated)
                 THEN Step("compile", BpfOutcome(activated, res), activated, FALSE)
                 ELSE NativeStep("compile", BpfOutcome(activated, res), activated, res)
    /\ lp' = NoLoop
    /\ UNCHANGED <<records, static, stream, logs, filt, looping, activated, nactive, dumper,
                   cfg, brk>>

\* Lines 203-208.
SetfilterOutcome(res) ==
    IF res = -1 THEN "PcapError"
    ELSE IF res = PCAP_ERROR_NOT_ACTIVATED THEN "PcapErrorNotActivated"
    ELSE "return"

\* The statuses of pcap_compile that matter to an assignment of type argk:
\* only a string is compiled (line 200).
CompileFor(argk) == IF argk = "str" THEN CompileStatuses ELSE {0}

\* Pcap.filter.__set__, lines 194-208: argk is the argument's type ("bpf" a
\* BpfProgram compiled earlier for expression e, "str" the string e, "other"
\* anything else); cres and sres are the statuses of pcap_compile and
\* pcap_setfilter.
SetFilter(argk, e) ==
    /\ pc = "idle" /\ pcap = "open"
    /\ IF NotActivated(activated)
       THEN /\ last' = Step("set_filter", "PcapErrorNotActivated", activated, FALSE)
            /\ UNCHANGED filt
       ELSE IF argk = "other"
       THEN /\ last' = Step("set_filter", "TypeError", activated, FALSE)
            /\ UNCHANGED filt
       ELSE \E cres \in CompileFor(argk) :
              IF BpfOutcome(activated, cres) # "return"
              THEN /\ last' = NativeStep("set_filter", BpfOutcome(activated, cres),
                                         activated, cres)
                   /\ UNCHANGED filt
              ELSE \E sres \in SetfilterStatuses :
                     /\ filter' = e
                     /\ nfilter' = IF sres = 0 THEN e ELSE nfilter
                     /\ last' = NativeStep("set_filter", SetfilterOutcome(sres),
                                           activated, sres)
    /\ lp' = NoLoop
    /\ UNCHANGED <<records, static, stream, logs, looping, activated, nactive, dumper, cfg, brk>>

\* ------------------------------------------------------- the specification
Next ==
    \/ \E v \in Vals : SetSnaplen(v)
    \/ \E v \in Vals : SetPromisc(v)
    \/ \E v \in Vals : SetTimeout(v)
    \/ \E v \in Vals : SetRfmon(v)
    \/ \E v \in Vals : SetBufferSize(v)
    \/ Activate
    \/ NextPkt
    \/ Breakloop
    \/ \E t \in {PCAP_LOOP_DISPATCH, PCAP_LOOP_LOOP}, c \in 0..MaxCount : LoopCall(t, c)
    \/ NativeSkip
    \/ \E cb \in CallbackActs, pend \in {"runs", "fails"} : NativeDeliver(cb, pend)
    \/ NativeReturn
    \/ Dealloc
    \/ \E e \in FilterExprs : BpfProgramInit(e)
    \/ \E argk \in {"bpf", "str", "other"}, e \in FilterExprs : SetFilter(argk, e)

Spec == Init /\ [][Next]_vars

\* =========================================== records built from native data
\* Longest packet on the wire, in bytes.
MaxLen == 2

\* Byte values of a packet; 0 is the NUL byte.
Bytes == {0, 1}

\* What libpcap hands to the packet callback and what pcap_next_ex returns: a
\* header with caplen <= len, and a buffer of which caplen bytes were captured;
\* mem is the packet as it was on the wire, mem[1..caplen] the captured part.
NativePackets ==
    UNION {{[hdr |-> [caplen |-> c, len |-> l], mem |-> m] : c \in 0..l, m \in [1..l -> Bytes]}
             : l \in 0..MaxLen}

\* A variant that copies as many bytes as the packet had on the wire.
PcapPacket_factory_wire(pkt_header, data) ==
    [pkthdr |-> pkt_header, data |-> SubSeq(data, 1, pkt_header.len)]

\* PcapPacket_factory, lines 569-574: the header is copied whole (line 572) and
\* the payload is the slice cast_data[:pkt_header.caplen] (line 573), a bytes
\* object of that many bytes whatever their values.
PcapPacket_factory(pkt_header, data) ==
    [pkthdr |-> pkt_header, data |-> SubSeq(data, 1, pkt_header.caplen)]

\* The getters of PcapPacket, lines 555-563.
caplen(pkt) == pkt.pkthdr.caplen
wirelen(pkt) == pkt.pkthdr.len
data(pkt) == pkt.data

\* sizeof of the socket address structures of lines 694, 696 and 699 (Linux).
sizeof_sockaddr_in == 16
sizeof_sockaddr_in6 == 28
sizeof_sockaddr_ll == 20

\* Non-zero results of getnameinfo (glibc): family not supported, and a
\* non-recoverable failure.
EAI_FAMILY == -6
EAI_FAIL == -4

\* Address families of a socket address; AF_UNIX stands for every family lines
\* 693-702 do not name (the build has AF_PACKET and no AF_LINK).
Families == {"AF_INET", "AF_INET6", "AF_PACKET", "AF_UNIX"}

\* The four roles of an address entry (pcap_addr_t), lines 723-726.
Roles == {"addr", "netmask", "broadaddr", "dstaddr"}

\* getnameinfo with NI_NUMERICHOST, line 715: it renders IPv4 and IPv6
\* addresses, or fails; any other family it refuses.
GetnameinfoResults(family) ==
    IF family \in {"AF_INET", "AF_INET6"} THEN {0, EAI_FAIL} ELSE {EAI_FAMILY}

\* The numeric string getnameinfo writes to buf on success.
NumericHost(family) == IF family = "AF_INET" THEN "192.0.2.1" ELSE "2001:db8::1"

\* A sockaddr pointer: <<>> for NULL, else <<sa>>, sa the structure pointed to
\* with the result getnameinfo has for it.
SockaddrPtrs ==
    {<<>>} \cup {<<[sa_family |-> f, gni |-> g]>> : f \in Families, g \in {0, EAI_FAIL, EAI_FAMILY}}

NativeAddresses ==
    {a \in [Roles -> SockaddrPtrs] :
        \A r \in Roles : a[r] # <<>> => a[r][1].gni \in GetnameinfoResults(a[r][1].sa_family)}

\* get_sock_len, lines 692-703.
get_sock_len(addr) ==
    IF addr.sa_family = "AF_INET" THEN sizeof_sockaddr_in
    ELSE IF addr.sa_family = "AF_INET6" THEN sizeof_sockaddr_in6
    ELSE IF addr.sa_family = "AF_PACKET" THEN sizeof_sockaddr_ll
    ELSE -1

\* A variant that gives up on the address when it cannot be rendered.
parse_addr_strict(addr) ==
    IF addr = <<>> THEN <<>>
    ELSE IF get_sock_len(addr[1]) < 0 THEN <<[family |-> addr[1].sa_family]>>
    ELSE IF addr[1].gni # 0 THEN <<>>
    ELSE <<[family |-> addr[1].sa_family, address |-> NumericHost(addr[1].sa_family)]>>

\* parse_addr, lines 705-719.  The value returned is <<>> for None and <<d>>
\* for the dict d.
parse_addr(addr) ==
    IF addr = <<>> THEN <<>>
    ELSE LET socklen == get_sock_len(addr[1])
         IN IF socklen < 0 THEN <<[family |-> addr[1].sa_family]>>
            ELSE LET res == addr[1].gni
                 IN IF res # 0 THEN <<[family |-> addr[1].sa_family]>>
                    ELSE <<[family |-> addr[1].sa_family,
                            address |-> NumericHost(addr[1].sa_family)]>>

\* PcapAddress_factory, lines 721-727.
PcapAddress_factory(address) ==
    [addr |-> parse_addr(address.addr),
     netmask |-> parse_addr(address.netmask),
     broadaddr |-> parse_addr(address.broadaddr),
     dstaddr |-> parse_addr(address.dstaddr)]

\* No capture session exists.
NoSession ==
    /\ kind = None /\ autosave = FALSE /\ src = <<>> /\ eof = FALSE
    /\ pcap = "NULL" /\ released = 0 /\ activated = FALSE /\ nactive = FALSE
    /\ dumper = FALSE /\ filter = None /\ nfilter = None
    /\ cfg = [snaplen |-> None, promisc |-> None, timeout |-> None,
              rfmon |-> None, buffer_size |-> None]
    /\ brk = FALSE /\ pyerr = 0 /\ pc = "freed" /\ lp = NoLoop
    /\ delivered = <<>> /\ dumped = <<>>
    /\ last = Step("none", "return", FALSE, FALSE)

RecordInit ==
    /\ NoSession
    /\ \/ \E p \in NativePackets : native = [is |-> "packet", hdr |-> p.hdr, mem |-> p.mem]
       \/ \E a \in NativeAddresses : native = [is |-> "address", entry |-> a]
    /\ built = <<>>

\* __next__ builds the packet it returns, line 100.
NextBuilds ==
    /\ native.is = "packet" /\ built = <<>>
    /\ built' = <<[by |-> "next", rec |-> PcapPacket_factory(native.hdr, native.mem)]>>
    /\ UNCHANGED <<session, native>>

\* __pcap_callback_fn builds the packet it hands to the callback, line 48.
CallbackBuilds ==
    /\ native.is = "packet" /\ built = <<>>
    /\ built' = <<[by |-> "callback", rec |-> PcapPacket_factory(native.hdr, native.mem)]>>
    /\ UNCHANGED <<session, native>>

\* PcapInterface_factory builds the PcapAddress of each entry, line 637.
AddressBuilds ==
    /\ native.is = "address" /\ built = <<>>
    /\ built' = <<[by |-> "findalldevs", rec |-> PcapAddress_factory(native.entry)]>>
    /\ UNCHANGED <<session, native>>

RecordNext == NextBuilds \/ CallbackBuilds \/ AddressBuilds

RecordSpec == RecordInit /\ [][RecordNext]_vars

\* ================================================================= claims
LoopOps == {"loop", "dispatch"}
ReadOps == {"next", "loop", "dispatch"}
SetOps == {"set_snaplen", "set_promisc", "set_timeout", "set_rfmon", "set_buffer_size"}

\* A loop()/dispatch() call has just come back from the native loop.
LoopReturned == last.op \in LoopOps /\ last.nat

\* The packets the native engine surfaced since the running (or just finished)
\* call began, in the order it read them.
SurfacedSince(p) ==
    LET F[i \in p..pos] ==
          IF i = p THEN <<>> ELSE IF src[i] THEN Append(F[i - 1], i) ELSE F[i - 1]
    IN F[pos]

\* C1 (as claimed): when the callback raised during loop()/dispatch(), the call
\* ends by raising the callback's own failure.
C1_CallbackFailurePropagates ==
    (LoopReturned /\ lp.raisedAt # 0) => last.out = CallbackFailure

\* C2 (as claimed): once the callback has raised on packet k, the callback is
\* given no later packet in that call and no later packet is dumped.
C2_NoDeliveryAfterFailure ==
    (lp.raisedAt # 0) =>
        /\ \A i \in 1..Len(lp.log) : lp.log[i] <= lp.raisedAt
        /\ \A i \in 1..Len(dumped) : dumped[i] <= lp.raisedAt

\* C3 (as claimed): the break is requested during the invocation in which the
\* callback raised, so that whenever control is back in the native engine with
\* the failure pending, the break flag is set.
C3_BreakRequestedWithFailure ==
    (pc = "native" /\ pyerr # 0) => brk

\* C4 (as claimed): on an activated live session every configuration setter
\* fails with PcapErrorActivated and leaves every getter's value as it was.
C4_SettersRefusedAfterActivation ==
    [][(last'.op \in SetOps /\ activated)
         => (last'.out = "PcapErrorActivated" /\ cfg' = cfg)]_vars

\* C5: on a session that is not activated, __next__, dispatch and loop fail
\* with PcapErrorNotActivated without calling the native handle: no packet is
\* read, no callback runs, nothing is dumped, the break flag is untouched and
\* no native loop is entered.
C5_ReadsRefusedBeforeActivation ==
    [][(last'.op \in ReadOps /\ ~activated)
         => /\ last'.out = "PcapErrorNotActivated"
            /\ ~last'.nat
            /\ pc' = "idle"
            /\ UNCHANGED <<src, eof, brk, delivered, dumped>>]_vars

\* C5's case: a read refused on a session that libpcap holds activated (after
\* a warning) while __activated is still false.
C5_Witness ==
    last.op \in ReadOps /\ ~last.pre /\ nactive /\ last.out = "PcapErrorNotActivated"

\* C6 (as claimed): when activate() raises a warning, the session is activated.
C6_WarningActivates ==
    (last.op = "activate" /\ last.out \in {"PcapWarning", "PcapWarningPromiscNotSup"})
        => activated

\* C7: the activation state never goes back from true to false, whatever the
\* operation and whether it succeeds or fails.
C7_ActivationMonotonic == [][activated => activated']_vars

\* C7's case: an operation has failed on an activated live session.
C7_Witness ==
    /\ kind = "live" /\ activated
    /\ last.op = "activate" /\ last.out = "PcapErrorActivated"

\* C8 (as claimed): with an autosave path, an activated session has its Dump
\* Sink attached.
C8_AutosaveAttached == (autosave /\ activated) => dumper

\* C9 (as claimed): between calls, the records written to the attached Dump
\* Sink are the records handed to the caller, in the same order.
C9_DumpMirrorsDelivery == (dumper /\ pc = "idle") => dumped = delivered

\* C10: an unbounded loop() on an offline session whose callback did not
\* raise, and which ended because the savefile was exhausted, has called the
\* callback once for each packet the filter let through, in file order, and
\* returned normally.
C10_OfflineLoopToEnd ==
    (/\ kind = "offline" /\ LoopReturned /\ last.op = "loop"
     /\ lp.cnt = 0 /\ lp.raisedAt = 0 /\ lp.end = "eof")
        => /\ last.out = "return"
           /\ eof
           /\ lp.log = SurfacedSince(lp.start)

\* C10's case: a savefile of two packets, the attached filter letting one of
\* them through, read to its end by loop(0, cb).
C10_Witness ==
    /\ kind = "offline" /\ LoopReturned /\ last.op = "loop"
    /\ lp.cnt = 0 /\ lp.raisedAt = 0 /\ lp.end = "eof"
    /\ nfilter # None /\ lp.start = 0 /\ pos = 2 /\ Len(lp.log) = 1
    /\ last.out = "return"

C12_CallbackBreakStops ==
    (lp.brokeAt # 0)
        => /\ \A i \in 1..Len(lp.log) : lp.log[i] <= lp.brokeAt
           /\ dumper => (Len(dumped) > 0 /\ dumped[Len(dumped)] = lp.brokeAt)

\* C12's case: an unbounded call whose callback called breakloop() on the first
\* packet, with more input to come and a Dump Sink attached, has returned.
C12_Witness ==
    /\ LoopReturned /\ lp.cnt = 0 /\ lp.brokeAt = 1 /\ lp.log = <<1>>
    /\ dumper /\ dumped = <<1>> /\ ~eof /\ pos < MaxPkts

\* The statuses the if/elif chain of lines 472-490 names.
NamedActivateStatuses ==
    {0, PCAP_WARNING_PROMISC_NOTSUP, PCAP_WARNING, PCAP_ERROR_ACTIVATED,
     PCAP_ERROR_NO_SUCH_DEVICE, PCAP_ERROR_PERM_DENIED, PCAP_ERROR_RFMON_NOTSUP,
     PCAP_ERROR_IFACE_NOT_UP, PCAP_ERROR}

\* The statuses with which each native call reports success.
SuccessStatus(op, res) ==
    IF op = "next" THEN res = 1
    ELSE IF op \in LoopOps THEN res >= 0
    ELSE res = 0

\* C13 (as claimed): an operation whose native call returned anything but a
\* success status does not return normally, and activate() turns a status its
\* chain does not name into PcapError.  (A loop whose callback raised is left
\* out: its outcome is the callback's matter, not the status's.)
C13_StatusNeverSilentSuccess ==
    (/\ last.op \in {"activate", "set_filter", "compile", "next", "loop", "dispatch"}
     /\ last.res # <<>>
     /\ last.op \in LoopOps => lp.raisedAt = 0)
        => /\ ~SuccessStatus(last.op, last.res[1]) => last.out # "return"
           /\ (last.op = "activate" /\ last.res[1] \notin NamedActivateStatuses)
                 => last.out = "PcapError"

\* C14: on an activated session __next__() returns the packet on status 1,
\* raises PcapTimeout on 0, StopIteration on -2 and PcapError on -1; the packet
\* is handed over and (with a Dump Sink) dumped on status 1, and nothing is
\* handed over or dumped on any other status.
C14_NextResultMapping ==
    [][(last'.op = "next" /\ last'.nat)
         => LET res == last'.res[1]
            IN /\ res = 1 => /\ last'.out = "return"
                             /\ delivered' = Append(delivered, Len(src'))
                             /\ dumped' = IF dumper THEN Append(dumped, Len(src'))
                                          ELSE dumped
               /\ res = 0 => last'.out = "PcapTimeout"
               /\ res = -2 => last'.out = "StopIteration"
               /\ res = -1 => last'.out = "PcapError"
               /\ res # 1 => (last'.out # "return" /\ UNCHANGED <<delivered, dumped>>)]_vars

\* C14's case: on a live session with a Dump Sink one packet was read, and the
\* next read timed out.
C14_Witness ==
    /\ kind = "live" /\ dumper /\ last.op = "next" /\ last.res = <<0>>
    /\ last.out = "PcapTimeout" /\ delivered = <<1>> /\ dumped = <<1>>

\* C15: BpfProgram(session, expr) and an assignment of a string or a BpfProgram
\* to session.filter, on a session that is not activated, fail with
\* PcapErrorNotActivated without a native call and leave the filter as it was.
C15_FilterRefusedBeforeActivation ==
    [][(last'.op \in {"compile", "set_filter"} /\ ~activated)
         => /\ last'.out = "PcapErrorNotActivated"
            /\ ~last'.nat
            /\ UNCHANGED <<filter, nfilter>>]_vars

\* C15's case: a filter compiled for a live session on which activate() raised
\* a warning, so that libpcap holds it activated and the wrapper does not.
C15_Witness ==
    /\ kind = "live" /\ nactive /\ ~last.pre /\ last.op = "compile"
    /\ last.out = "PcapErrorNotActivated"

\* C16: pcap_close is called on the session's handle at most once; once the
\* session is destroyed it has been called exactly once if a handle was opened
\* and never if none was, whatever the constructor and the operations did.
C16_HandleReleasedOnce ==
    /\ released <= 1
    /\ pcap = "NULL" => released = 0
    /\ pc = "freed" => released = (IF pcap = "open" THEN 1 ELSE 0)
    /\ pc # "freed" => released = 0

\* C16's case: a live session whose activate() raised for its Dump Sink, and
\* which read packets all the same, has been destroyed.
C16_Witness ==
    /\ pc = "freed" /\ released = 1 /\ kind = "live" /\ Len(delivered) > 0
    /\ ~dumper /\ autosave

\* C17: breakloop() on a session that is not activated returns without
\* raising, calls no native function and changes nothing of the session; and
\* no break request is ever pending on a session that is not activated, so
\* that none is left for a loop run after a later activation.
C17_BreakloopBeforeActivation ==
    [][/\ (last'.op = "breakloop" /\ ~activated)
            => /\ last'.out = "return"
               /\ ~last'.nat
               /\ UNCHANGED <<static, stream, logs, filt, looping, activated,
                              nactive, dumper, cfg, brk>>
       /\ ~activated' => ~brk']_vars

\* C17's case: breakloop() on a live session that libpcap holds activated
\* (activate() raised a warning) while the wrapper does not.
C17_Witness ==
    /\ kind = "live" /\ nactive /\ ~last.pre /\ last.op = "breakloop"
    /\ last.out = "return" /\ ~brk

\* C18 (as claimed): a session with a Dump Sink attached is activated.
C18_DumperImpliesActivated == dumper => activated

\* C19 (as claimed): a filter assignment that fails leaves the filter the
\* getter returns as it was.
C19_FailedFilterKeepsGetter ==
    [][(last'.op = "set_filter" /\ last'.out # "return") => filter' = filter]_vars

\* C20 (as claimed): a loop()/dispatch() call made right after a call that
\* ended with a failure of its callback, whose own callback neither raises nor
\* calls breakloop(), does not end with PcapErrorBreak.
C20_BridgeBreakDoesNotOutlive ==
    (LoopReturned /\ lp.after = "failure" /\ lp.raisedAt = 0 /\ lp.brokeAt = 0)
        => last.out # "PcapErrorBreak"

\* The configuration fields of a live session and the setter of each.
Fields == {"snaplen", "promisc", "timeout", "rfmon", "buffer_size"}
FieldOf(op) ==
    CASE op = "set_snaplen" -> "snaplen"
      [] op = "set_promisc" -> "promisc"
      [] op = "set_timeout" -> "timeout"
      [] op = "set_rfmon" -> "rfmon"
      [] op = "set_buffer_size" -> "buffer_size"

\* The getters of lines 301-302, 319-320, 337-338, 355-359, 387-391: each
\* returns the attribute of its field.
Get(f) == cfg[f]

\* C21 (as claimed): on a live session that is not activated, the getter of
\* each configuration field returns the value the constructor passed right
\* after construction, and the value assigned right after a set of that field
\* that completed without raising.
C21_SetVisibleToGetter ==
    (kind = "live" /\ pc = "idle" /\ ~activated)
        => /\ last.op = "init" => \A f \in Fields : Get(f) = "v0"
           /\ (last.op \in SetOps /\ last.out = "return")
                 => Get(FieldOf(last.op)) = last.arg[1]

\* C22: an offline session is activated by construction.  While its handle is
\* in use (the constructor returned, no __dealloc__ yet) the activation state
\* is true, and no __next__, loop, dispatch or filter assignment on it fails
\* with PcapErrorNotActivated; when no file could be opened the constructor
\* raised PcapError, the activation state is false and no Dump Sink is
\* attached.
C22_OfflineActivatedByConstruction ==
    kind = "offline"
        => /\ pc \in {"idle", "native"} => activated
           /\ last.op \in ReadOps \cup {"set_filter"}
                 => last.out # "PcapErrorNotActivated"
           /\ pcap = "NULL" => (~activated /\ ~dumper /\ pc # "idle")
           /\ (last.op = "init" /\ pcap = "NULL") => last.out = "PcapError"
           /\ (last.op = "init" /\ last.out = "return") => activated

\* An offline session delivered a packet through __next__, loop or dispatch;
\* a PcapOffline has no activate().
C22_Witness ==
    /\ kind = "offline" /\ activated
    /\ last.op \in ReadOps /\ last.out = "return"
    /\ Len(delivered) > 0

\* C23: each role of a PcapAddress is exactly one of three values.  It is
\* absent (None) when the native pointer is NULL; it holds the family alone
\* when the family has no known socket length or when the numeric rendering
\* fails; it holds the family and the numeric string otherwise.  The factory
\* always returns, and a role's value depends on that role's pointer alone:
\* two roles with the same native content get the same value whatever
\* happened to the others.
C23_ParseAddrTriState ==
    (built # <<>> /\ built[1].by = "findalldevs")
        => /\ \A r \in Roles :
                LET p == native.entry[r]
                    v == built[1].rec[r]
                IN IF p = <<>> THEN v = <<>>
                   ELSE IF \/ p[1].sa_family \notin {"AF_INET", "AF_INET6", "AF_PACKET"}
                           \/ p[1].gni # 0
                        THEN v = <<[family |-> p[1].sa_family]>>
                        ELSE v = <<[family |-> p[1].sa_family,
                                    address |-> NumericHost(p[1].sa_family)]>>
           /\ \A r, q \in Roles :
                native.entry[r] = native.entry[q] => built[1].rec[r] = built[1].rec[q]

\* One PcapAddress with all the cases: its address rendered, the rendering of
\* its netmask failed, it has no broadcast address, and its destination
\* address is of a family with no known socket length.
C23_Witness ==
    /\ built # <<>> /\ built[1].by = "findalldevs"
    /\ built[1].rec.addr = <<[family |-> "AF_INET", address |-> "192.0.2.1"]>>
    /\ native.entry.netmask = <<[sa_family |-> "AF_INET", gni |-> EAI_FAIL]>>
    /\ built[1].rec.netmask = <<[family |-> "AF_INET"]>>
    /\ native.entry.broadaddr = <<>>
    /\ built[1].rec.broadaddr = <<>>
    /\ native.entry.dstaddr = <<[sa_family |-> "AF_UNIX", gni |-> EAI_FAMILY]>>
    /\ built[1].rec.dstaddr = <<[family |-> "AF_UNIX"]>>

\* C24: a packet record built by __next__ or for a loop/dispatch callback has
\* a payload as long as the captured length of the native header, which is
\* not the wire length whenever the packet was cut short, and its caplen and
\* wirelen are the native header's caplen and len.
C24_PayloadLengthIsCaplen ==
    (built # <<>> /\ built[1].by \in {"next", "callback"})
        => LET pkt == built[1].rec
           IN /\ Len(data(pkt)) = native.hdr.caplen
              /\ native.hdr.caplen < native.hdr.len => Len(data(pkt)) # native.hdr.len
              /\ caplen(pkt) = native.hdr.caplen
              /\ wirelen(pkt) = native.hdr.len

\* The callback was handed a packet cut short of its wire length, whose only
\* captured byte is NUL.
C24_Witness ==
    /\ built # <<>> /\ built[1].by = "callback"
    /\ native.hdr.caplen < native.hdr.len
    /\ data(built[1].rec) = <<0>>
====
